---- MODULE Spec2Model ----
(***************************************************************************)
(* Model of the server status prober of src/launcher.py: the VarInt codec  *)
(* (_pack_varint, _read_varint), the status exchange mc_status, and the    *)
(* poller Launcher._start_status_updates / Launcher._update_status that    *)
(* runs it from the Qt event loop.                                         *)
(*                                                                         *)
(* Time is counted in units of 0.5 s.  A byte of the stream is a natural   *)
(* number.  The bytes of the JSON text are modelled as tokens: the braces, *)
(* a blank, a digit and a garbage byte are their ASCII codes, and a code   *)
(* >= 256 stands for the bytes of one well-formed  "key": value  member    *)
(* (table Members), delivered as one unit.                                 *)
(***************************************************************************)
EXTENDS Integers, Sequences, FiniteSets, TLC

\* ------------------------------------------------------------------ bounds
\* exchanges started in one behaviour
MaxProbes == 3
\* the clock of one exchange stops being advanced here
MaxClock == 21

\* ------------------------------------------------------- program constants
\* mc_status(host, port, timeout=2.5): 2.5 s = 5 half-seconds
Timeout == 5
\* self.timer.setInterval(10_000): 10 s = 20 half-seconds
PollInterval == 20
\* protocol_version = 762
ProtocolVersion == 762
\* SERVER_PORT = 28585
ServerPort == 28585
\* SERVER_HOST = "82.141.114.148" as UTF-8 bytes
HostBytes == <<56, 50, 46, 49, 52, 49, 46, 49, 49, 52, 46, 49, 52, 56>>
\* sample[:12]
DisplayCap == 12
\* if num_read > 5
VarintMax == 5

\* ------------------------------------------------------------ VarInt codec
\* Python integers are unbounded.  The values the codec handles reach 2^32
\* and beyond, so they are kept as two limbs <<hi, lo>> standing for
\* hi * 2^16 + lo, with lo below 2^16.
Limb == 65536
Wide(n) == <<n \div Limb, n % Limb>>
Narrow(w) == w[1] * Limb + w[2]

\* value & 0xFFFFFFFF
Mask32(w) == <<w[1] % Limb, w[2]>>
\* v >>= 7
Shr7(w) == <<w[1] \div 128, (w[2] \div 128) + (w[1] % 128) * (Limb \div 128)>>
\* w << 7
Shl7(w) == <<w[1] * 128 + (w[2] * 128) \div Limb, (w[2] * 128) % Limb>>

RECURSIVE PackVarintFromUnflagged(_)
\* mutant: the continuation bit is never set
PackVarintFromUnflagged(v) ==
    LET b == v[2] % 128
        rest == Shr7(v)
    IN  IF rest # <<0, 0>> THEN <<b>> \o PackVarintFromUnflagged(rest) ELSE <<b>>

RECURSIVE PackVarintFromPadded(_)
\* mutant: every byte carries the high bit and a zero group ends the output
PackVarintFromPadded(v) ==
    LET b == v[2] % 128
        rest == Shr7(v)
    IN  IF rest # <<0, 0>> THEN <<b + 128>> \o PackVarintFromPadded(rest)
        ELSE <<b + 128, 0>>

RECURSIVE PackVarintFrom(_)
\* the loop of _pack_varint on the masked value v
PackVarintFrom(v) ==
    LET b == v[2] % 128
        rest == Shr7(v)
    IN  IF rest # <<0, 0>> THEN <<b + 128>> \o PackVarintFrom(rest) ELSE <<b>>

\* _pack_varint(value) on a value given as limbs
PackVarintWide(value) == PackVarintFrom(Mask32(value))
\* _pack_varint(value) on a small value
PackVarint(value) == PackVarintWide(Wide(value))

\* mutant: struct.pack("<H", port)
PackU16LE(port) == <<port % 256, port \div 256>>

\* struct.pack(">H", port)
PackU16BE(port) == <<port \div 256, port % 256>>

\* the integer whose 7-bit groups, low-order first, are groups: the value
\* that  result |= value << (7 * num_read)  has built from them (the groups
\* occupy disjoint bits, so the or is a sum)
RECURSIVE WideOf(_)
WideOf(groups) ==
    IF groups = <<>> THEN <<0, 0>>
    ELSE LET high == Shl7(WideOf(Tail(groups)))
         IN  <<high[1], high[2] + Head(groups)>>
\* the same as an integer, for the small values
ValueOf(groups) == Narrow(WideOf(groups))

\* mutant: the loop raises only after a seventh byte
VarintTurnLate(byte, res, nr) ==
    LET groups == Append(res, byte % 128)
        n == nr + 1
    IN  [groups |-> groups, n |-> n,
         end |-> IF n > VarintMax + 1 THEN "toobig"
                 ELSE IF byte >= 128 THEN "more" ELSE "done"]

\* one turn of the loop of _read_varint on the byte received: the groups
\* read so far, num_read, and whether the loop raises, goes on or breaks
VarintTurn(byte, res, nr) ==
    LET groups == Append(res, byte % 128)
        n == nr + 1
    IN  [groups |-> groups, n |-> n,
         end |-> IF n > VarintMax THEN "toobig"
                 ELSE IF byte >= 128 THEN "more" ELSE "done"]

\* ------------------------------------------------------------- JSON values
\* a JSON value: t its type, n a number or boolean, s a string, a the items
\* of an array, o the members <<[k, v], ...>> of an object
JNull == [t |-> "null", n |-> 0, s |-> "", a |-> <<>>, o |-> <<>>]
JNum(x) == [t |-> "num", n |-> x, s |-> "", a |-> <<>>, o |-> <<>>]
JStr(x) == [t |-> "str", n |-> 0, s |-> x, a |-> <<>>, o |-> <<>>]
JBool(x) == [t |-> "bool", n |-> IF x THEN 1 ELSE 0, s |-> "", a |-> <<>>, o |-> <<>>]
JArr(x) == [t |-> "arr", n |-> 0, s |-> "", a |-> x, o |-> <<>>]
JObj(x) == [t |-> "obj", n |-> 0, s |-> "", a |-> <<>>, o |-> x]
Member(key, val) == [k |-> key, v |-> val]

\* dict.__contains__ and dict.get(key, default); the last duplicate wins
HasKey(obj, key) == \E i \in 1..Len(obj.o) : obj.o[i].k = key
Get(obj, key, default) ==
    IF HasKey(obj, key)
    THEN LET i == CHOOSE i \in 1..Len(obj.o) :
                    /\ obj.o[i].k = key
                    /\ \A m \in (i + 1)..Len(obj.o) : obj.o[m].k # key
         IN  obj.o[i].v
    ELSE default

\* Python truth value of a decoded JSON value
Truthy(v) ==
    CASE v.t = "null" -> FALSE
      [] v.t = "bool" -> v.n # 0
      [] v.t = "num"  -> v.n # 0
      [] v.t = "str"  -> v.s # ""
      [] v.t = "arr"  -> v.a # <<>>
      [] OTHER        -> v.o # <<>>

\* the JSON texts: token codes (ASCII for the single bytes; a code above
\* member stands for the bytes of one member of the table Members)
Tok == [lbrace |-> 123, rbrace |-> 125, blank |-> 32, bang |-> 33,
        seven |-> 55, member |-> 256]

PlayersA ==
    JObj(<<Member("online", JNum(5)), Member("max", JNum(20)),
           Member("sample", JArr(<<JObj(<<Member("name", JStr("Alice"))>>),
                                   JObj(<<Member("name", JStr("Bob"))>>)>>))>>)
PlayersNum ==
    JObj(<<Member("online", JNum(1)), Member("max", JNum(20)),
           Member("sample", JArr(<<JObj(<<Member("name", JNum(7))>>)>>))>>)

\* a sample whose first entry has no name and whose second has one
SampleBob == JArr(<<JObj(<<>>), JObj(<<Member("name", JStr("Bob"))>>)>>)
\* a sample of an entry with an empty name followed by more named entries
\* than _update_status displays
SampleLong ==
    JArr(<<JObj(<<Member("name", JStr(""))>>)>>
         \o [i \in 1..(DisplayCap + 1) |->
                JObj(<<Member("name", JStr("P" \o ToString(i)))>>)])

\* the members a member token stands for
Members ==
    << Member("players", PlayersA),
       Member("description", JStr("Welcome")),
       Member("players", PlayersNum),
       Member("players", JObj(<<Member("online", JNull), Member("max", JNum(20))>>)),
       Member("players", JObj(<<Member("online", JStr("abc"))>>)),
       Member("players", JObj(<<Member("max", JObj(<<>>))>>)),
       Member("players", JObj(<<Member("max", JArr(<<>>))>>)),
       Member("players", JObj(<<Member("online", JNum(-1)), Member("max", JNum(-5))>>)),
       Member("description", JNum(7)),
       Member("description", JNull),
       Member("description", JBool(TRUE)),
       Member("description", JArr(<<>>)),
       Member("description", JStr("Hello")),
       Member("description", JObj(<<Member("text", JStr("Hello"))>>)),
       Member("description", JObj(<<>>)),
       Member("description", JObj(<<Member("text", JNum(7))>>)),
       Member("players", JObj(<<Member("sample", SampleBob)>>)),
       Member("players", JObj(<<Member("sample", SampleLong)>>)) >>

IsMemberTok(c) == c > Tok.member /\ c <= Tok.member + Len(Members)
MemberOf(c) == Members[c - Tok.member]

RECURSIVE LStrip(_)
LStrip(text) ==
    IF text # <<>> /\ Head(text) = Tok.blank THEN LStrip(Tail(text)) ELSE text
RECURSIVE RStrip(_)
RStrip(text) ==
    IF text # <<>> /\ text[Len(text)] = Tok.blank
    THEN RStrip(SubSeq(text, 1, Len(text) - 1))
    ELSE text

\* json.loads(text): blanks around one value, which is the number 7 or an
\* object of members; anything else raises JSONDecodeError
JsonLoads(text) ==
    LET body == RStrip(LStrip(text))
        n == Len(body)
    IN  IF n = 1 /\ body[1] = Tok.seven
        THEN [err |-> FALSE, val |-> JNum(7)]
        ELSE IF /\ n >= 2
                /\ body[1] = Tok.lbrace
                /\ body[n] = Tok.rbrace
                /\ \A i \in 2..(n - 1) : IsMemberTok(body[i])
        THEN [err |-> FALSE,
              val |-> JObj([i \in 1..(n - 2) |-> MemberOf(body[i + 1])])]
        ELSE [err |-> TRUE, val |-> JNull]

\* ---------------------------------------------- mc_status: lines 220 to 237
\* the two shapes of the dict mc_status returns; the keys a shape does not
\* have hold a placeholder
Online(online, maxp, motd, sample) ==
    [ok |-> TRUE, online |-> online, max |-> maxp, motd |-> motd,
     sample |-> sample, error |-> ""]
Offline(msg) ==
    [ok |-> FALSE, online |-> 0, max |-> 0, motd |-> JStr(""),
     sample |-> <<>>, error |-> msg]

\* what a piece of the try body does: it raises cls(msg) or yields val
Raised(cls, msg) == [raised |-> TRUE, cls |-> cls, msg |-> msg, val |-> Offline("")]
Yields(val) == [raised |-> FALSE, cls |-> "", msg |-> "", val |-> val]

\* int(v): a number or boolean is its value, a string of decimal digits
\* (0..99 here) its number, any other string a ValueError, None, a list or
\* a dict a TypeError
IntOf(v) ==
    CASE v.t \in {"num", "bool"} -> [raised |-> FALSE, cls |-> "", n |-> v.n]
      [] v.t = "str" ->
            IF \E x \in 0..99 : ToString(x) = v.s
            THEN [raised |-> FALSE, cls |-> "",
                  n |-> CHOOSE x \in 0..99 : ToString(x) = v.s]
            ELSE [raised |-> TRUE, cls |-> "ValueError", n |-> 0]
      [] OTHER -> [raised |-> TRUE, cls |-> "TypeError", n |-> 0]

\* str(desc) of a value that is not a dict
StrOf(v) ==
    CASE v.t = "str"  -> v.s
      [] v.t = "num"  -> ToString(v.n)
      [] v.t = "bool" -> IF v.n # 0 THEN "True" ELSE "False"
      [] v.t = "null" -> "None"
      [] v.t = "arr" /\ v.a = <<>> -> "[]"
      [] OTHER        -> "[...]"

\* x or {}
OrEmptyDict(v) == IF Truthy(v) THEN v ELSE JObj(<<>>)

\* mutant: the loop stops after the names that are displayed
RECURSIVE SampleNamesUpTo(_, _)
SampleNamesUpTo(items, room) ==
    IF items = <<>> \/ room = 0 THEN <<>>
    ELSE LET name == Get(Head(items), "name", JNull)
         IN  IF Truthy(name)
             THEN <<name>> \o SampleNamesUpTo(Tail(items), room - 1)
             ELSE SampleNamesUpTo(Tail(items), room)
SampleNamesCapped(items) == SampleNamesUpTo(items, DisplayCap)

\* the names the loop  for item in (players.get("sample") or [])  appends
RECURSIVE SampleNames(_)
SampleNames(items) ==
    IF items = <<>> THEN <<>>
    ELSE LET name == Get(Head(items), "name", JNull)
         IN  (IF Truthy(name) THEN <<name>> ELSE <<>>) \o SampleNames(Tail(items))

\* the loop over the sample: a value that is not iterable raises TypeError,
\* an item without .get (not a dict) raises AttributeError
SampleOf(players) ==
    LET v == Get(players, "sample", JNull)
    IN  IF ~Truthy(v) THEN Yields(<<>>)
        ELSE IF v.t \in {"num", "bool"}
        THEN Raised("TypeError", "object is not iterable")
        ELSE IF v.t # "arr"
        THEN Raised("AttributeError", "'str' object has no attribute 'get'")
        ELSE IF \E i \in 1..Len(v.a) : v.a[i].t # "obj"
        THEN Raised("AttributeError", "object has no attribute 'get'")
        ELSE Yields(SampleNames(v.a))

\* mutant: the description is always read as a component
MotdOfTextOnly(j) ==
    LET desc == Get(j, "description", JStr(""))
    IN  IF desc.t = "obj" THEN Get(desc, "text", JStr("")) ELSE JStr("")

\* mutant: the description is always turned into text by str
MotdOfStrAlways(j) == JStr(StrOf(Get(j, "description", JStr(""))))

\* desc = j.get("description", ""); motd = desc.get("text", "") or str(desc)
MotdOf(j) ==
    LET desc == Get(j, "description", JStr(""))
    IN  IF desc.t = "obj" THEN Get(desc, "text", JStr("")) ELSE JStr(StrOf(desc))

\* lines 221 to 237 on the decoded value j
ParseLoaded(j) ==
    LET players == OrEmptyDict(Get(j, "players", JObj(<<>>)))
        online == IntOf(Get(players, "online", JNum(0)))
        maxp == IntOf(Get(players, "max", JNum(0)))
        sample == SampleOf(players)
    IN  IF j.t # "obj"
        THEN Raised("AttributeError", "object has no attribute 'get'")
        ELSE IF players.t # "obj"
        THEN Raised("AttributeError", "object has no attribute 'get'")
        ELSE IF online.raised
        THEN Raised(online.cls, "int() argument")
        ELSE IF maxp.raised
        THEN Raised(maxp.cls, "int() argument")
        ELSE IF sample.raised
        THEN sample
        ELSE Yields(Online(online.n, maxp.n, MotdOf(j), sample.val))

\* mutant: a text that does not parse is read as the empty object
ParseStatusLenient(raw) ==
    LET loaded == JsonLoads(raw)
    IN  IF loaded.err THEN ParseLoaded(JObj(<<>>)) ELSE ParseLoaded(loaded.val)

\* json.loads(raw.decode("utf-8", "replace")) and the lines after it, up to
\* the return of the Online dict; decoding with "replace" never raises
ParseStatus(raw) ==
    LET loaded == JsonLoads(raw)
    IN  IF loaded.err
        THEN Raised("JSONDecodeError", "Expecting value")
        ELSE ParseLoaded(loaded.val)

\* ------------------------------------------------------------- the peer
\* one response frame as a peer writes it: length, packet id, string length,
\* JSON text
Frame(packetId, strLen, text) ==
    LET body == PackVarint(packetId) \o PackVarint(strLen) \o text
    IN  PackVarint(Len(body)) \o body

\* the streams a peer may intend to write
FullStreams ==
    { Frame(0, 4, <<Tok.lbrace, Tok.member + 1, Tok.member + 2, Tok.rbrace>>),
      Frame(0, 3, <<Tok.lbrace, Tok.rbrace, Tok.blank>>),
      Frame(0, 2, <<Tok.lbrace, Tok.bang>>),
      Frame(0, 1, <<Tok.seven>>),
      Frame(0, 3, <<Tok.lbrace, Tok.member + 3, Tok.rbrace>>),
      Frame(1, 2, <<Tok.lbrace, Tok.rbrace>>),
      Frame(128, 2, <<Tok.lbrace, Tok.rbrace>>),
      <<128, 128, 128, 128, 128, 1>>,
      \* a frame whose length says 1 although 4 bytes follow it
      PackVarint(1) \o PackVarint(0) \o PackVarint(2) \o <<Tok.lbrace, Tok.rbrace>>,
      \* a frame followed by a byte of the next one
      Frame(0, 2, <<Tok.lbrace, Tok.rbrace>>) \o <<Tok.bang>> }

\* what a peer delivers: any prefix of such a stream; then it closes the
\* connection or stays silent
PeerStreams == UNION { { SubSeq(f, 1, n) : n \in 0..Len(f) } : f \in FullStreams }
PeerEnds == {"close", "hang"}

\* ------------------------------------------------------------------ state
VARIABLES
    pc,          \* where the GUI thread is
    caller,      \* who called _update_status: "start" or "tick"
    thread,      \* the thread executing the exchange in flight, or "none"
    timerActive, \* self.timer has been started
    tickPending, \* a timeout of self.timer waits for the event loop
    probeNo,     \* calls of mc_status so far
    inflight,    \* calls of mc_status that have not returned
    sock,        \* the socket s of the current call: "none", "open", "closed"
    rx,          \* bytes the peer will still deliver
    peerEnd,     \* what the peer does after them
    stream,      \* all the bytes the peer delivers on this connection
    sent,        \* the writes of the current call, in order
    nrecv,       \* recv calls of the current call
    elapsed,     \* time since the current call began
    num_read,    \* _read_varint: num_read
    result,      \* _read_varint: result, as its 7-bit groups, low-order first
    frame_len,   \* the length read at line 207 (discarded by the code), -1 unread
    pid,         \* pid, -1 while unread
    str_len,     \* str_len, -1 while unread
    raw,         \* raw
    st,          \* the dict the last call returned
    published,   \* the texts of status_title, play_status, status_players
    pubBy,       \* the call whose result wrote each of the three texts
    connects,    \* calls of create_connection in the current call
    interval,    \* the interval of self.timer, 0 before setInterval
    ticks,       \* timeouts of self.timer delivered to _update_status
    stop,        \* whether the user has closed the window, and when
    codec        \* the value, its decoding and the bytes used, codec on its own

vars == <<pc, caller, thread, timerActive, tickPending, probeNo, inflight, sock,
          rx, peerEnd, stream, sent, nrecv, elapsed, num_read, result, frame_len, pid,
          str_len, raw, st, published, pubBy, connects, interval, ticks, stop,
          codec>>

pollerVars == <<caller, timerActive, tickPending, probeNo, published, pubBy,
                interval, ticks, stop, codec>>
peerVars == <<rx, peerEnd, stream>>
readVars == <<num_read, result, frame_len, pid, str_len, raw>>

\* the thread that runs __init__ and the Qt event loop
UiThread == "MainThread"

\* the program points inside mc_status
ExchangePcs == {"connect", "send_handshake", "send_request", "read_len",
                "read_pid", "read_strlen", "payload", "close", "parse"}
VarintPcs == {"read_len", "read_pid", "read_strlen"}

\* no close of the window has been requested
NoStop == [req |-> FALSE, probes |-> 0, busy |-> FALSE]
\* the codec is not exercised on its own
CodecIdle == [v |-> <<0, 0>>, tail |-> <<>>, packed |-> FALSE, enc |-> <<>>,
              stream |-> <<>>, out |-> <<0, 0>>, used |-> 0]

\* the labels QLabel("Server status: loading...") and QLabel("")
Init ==
    /\ pc = "start"
    /\ caller = "none"
    /\ thread = "none"
    /\ timerActive = FALSE
    /\ tickPending = FALSE
    /\ probeNo = 0
    /\ inflight = 0
    /\ sock = "none"
    /\ rx = <<>>
    /\ peerEnd = "close"
    /\ sent = <<>>
    /\ nrecv = 0
    /\ elapsed = 0
    /\ num_read = 0
    /\ result = <<>>
    /\ frame_len = -1
    /\ pid = -1
    /\ str_len = -1
    /\ raw = <<>>
    /\ st = Offline("")
    /\ published = [title |-> "Server status: loading...",
                    play |-> "Server status: loading...",
                    players |-> ""]
    /\ pubBy = [title |-> 0, play |-> 0, players |-> 0]
    /\ connects = 0
    /\ stream = <<>>
    /\ interval = 0
    /\ ticks = 0
    /\ stop = NoStop
    /\ codec = CodecIdle

\* ------------------------------------------------------------- time
\* a blocking call that succeeds returns at once or after a pause shorter
\* than the timeout
Delays == {0, Timeout - 1}
After(d) == IF elapsed + d <= MaxClock THEN elapsed + d ELSE MaxClock

\* ------------------------------------------------- mc_status: try / except
\* mutant: except OSError
CatchesOnlyOSError(cls) == cls \in {"OSError", "timeout", "ConnectionError"}

\* except Exception: every class raised here derives from Exception
Catches(cls) ==
    cls \in {"OSError", "timeout", "ConnectionError", "ValueError",
             "JSONDecodeError", "TypeError", "AttributeError"}

\* an exception raised in the try body: line 239 returns the Offline dict.
\* The handler does not close s; whether the socket is still open when the
\* call has returned is up to the garbage collector.
Raise(cls, msg) ==
    /\ IF Catches(cls)
       THEN /\ st' = Offline(msg)
            /\ pc' = "publish"
       ELSE /\ st' = st
            /\ pc' = "escaped"
    /\ inflight' = inflight - 1
    /\ thread' = "none"
    /\ sock' \in (IF sock = "open" THEN {"open", "closed"} ELSE {sock})

\* entry of mc_status from _update_status
CallMcStatus(who) ==
    /\ pc' = "connect"
    /\ caller' = who
    /\ thread' = UiThread
    /\ probeNo' = probeNo + 1
    /\ inflight' = inflight + 1
    /\ sock' = "none"
    /\ rx' = <<>>
    /\ peerEnd' = "close"
    /\ stream' = <<>>
    /\ sent' = <<>>
    /\ nrecv' = 0
    /\ elapsed' = 0
    /\ num_read' = 0
    /\ result' = <<>>
    /\ frame_len' = -1
    /\ pid' = -1
    /\ str_len' = -1
    /\ raw' = <<>>
    /\ connects' = 0
    /\ UNCHANGED <<st, published, pubBy, interval, stop, codec>>

\* --------------------------------------------- mc_status: lines 184 to 204
\* data = id 0x00, protocol version, host length, host, port, next state 1
HandshakeData ==
    PackVarint(0) \o PackVarint(ProtocolVersion) \o PackVarint(Len(HostBytes))
        \o HostBytes \o PackU16BE(ServerPort) \o PackVarint(1)
HandshakePacket == PackVarint(Len(HandshakeData)) \o HandshakeData
\* req = _pack_varint(1) + _pack_varint(0x00)
StatusRequest == PackVarint(1) \o PackVarint(0)

\* mutant: a failed attempt is tried once more before the error is raised
ConnectFailRetry ==
    /\ pc = "connect"
    /\ connects' = connects + 2
    /\ elapsed' = After(Timeout + Timeout)
    /\ Raise("timeout", "timed out")
    /\ UNCHANGED <<pollerVars, peerVars, readVars, sent, nrecv>>

\* socket.create_connection((host, port), timeout=timeout) raises: the
\* address is an IP literal, so there is one attempt; it is refused within
\* the timeout or it times out
ConnectFail ==
    /\ pc = "connect"
    /\ connects' = connects + 1
    /\ \/ /\ \E d \in Delays : elapsed' = After(d)
          /\ Raise("OSError", "[Errno 111] Connection refused")
       \/ /\ elapsed' = After(Timeout)
          /\ Raise("timeout", "timed out")
    /\ UNCHANGED <<pollerVars, peerVars, readVars, sent, nrecv>>

\* create_connection returns s; s.settimeout(timeout)
ConnectOk ==
    /\ pc = "connect"
    /\ connects' = connects + 1
    /\ \E d \in Delays : elapsed' = After(d)
    /\ sock' = "open"
    /\ rx' \in PeerStreams
    /\ stream' = rx'
    /\ peerEnd' \in PeerEnds
    /\ pc' = "send_handshake"
    /\ UNCHANGED <<pollerVars, readVars, thread, inflight, sent, nrecv, st>>

\* mutant: the handshake and the request leave in one write
SendBoth ==
    /\ pc = "send_handshake"
    /\ sent' = Append(sent, HandshakePacket \o StatusRequest)
    /\ pc' = "read_len"
    /\ UNCHANGED <<pollerVars, connects, peerVars, readVars, thread, inflight, sock,
                   nrecv, elapsed, st>>

\* s.sendall(packet)
SendHandshake ==
    /\ pc = "send_handshake"
    /\ sent' = Append(sent, HandshakePacket)
    /\ pc' = "send_request"
    /\ UNCHANGED <<pollerVars, connects, peerVars, readVars, thread, inflight, sock,
                   nrecv, elapsed, st>>

\* s.sendall(req)
SendRequest ==
    /\ pc = "send_request"
    /\ sent' = Append(sent, StatusRequest)
    /\ pc' = "read_len"
    /\ UNCHANGED <<pollerVars, connects, peerVars, readVars, thread, inflight, sock,
                   nrecv, elapsed, st>>

\* sendall blocks until the timeout and raises socket.timeout
SendFail ==
    /\ pc \in {"send_handshake", "send_request"}
    /\ elapsed' = After(Timeout)
    /\ Raise("timeout", "timed out")
    /\ UNCHANGED <<pollerVars, connects, peerVars, readVars, sent, nrecv>>

\* --------------------------------- _read_varint, called at lines 207 to 211
\* mutant: the packet id is not checked
PacketIdAny(p) == TRUE

\* if pid != 0x00: raise ValueError
PacketIdOk(p) == p = 0

\* one turn of the loop of _read_varint that gets a byte: sock.recv(1)
RecvVarintByte ==
    /\ pc \in VarintPcs
    /\ rx # <<>>
    /\ \E d \in Delays : elapsed' = After(d)
    /\ nrecv' = nrecv + 1
    /\ rx' = Tail(rx)
    /\ LET turn == VarintTurn(Head(rx), result, num_read)
           groups == turn.groups
           res == ValueOf(groups)
           n == turn.n
       IN  IF turn.end = "toobig"
           THEN /\ Raise("ValueError", "VarInt too big")
                /\ num_read' = n
                /\ result' = groups
                /\ UNCHANGED <<frame_len, pid, str_len>>
           ELSE IF turn.end = "more"
           THEN /\ num_read' = n
                /\ result' = groups
                /\ UNCHANGED <<pc, frame_len, pid, str_len, thread, inflight,
                               sock, st>>
           ELSE /\ num_read' = 0
                /\ result' = <<>>
                /\ CASE pc = "read_len" ->
                          /\ frame_len' = res
                          /\ pc' = "read_pid"
                          /\ UNCHANGED <<pid, str_len, thread, inflight, sock, st>>
                     [] pc = "read_pid" ->
                          /\ pid' = res
                          /\ IF PacketIdOk(res)
                             THEN /\ pc' = "read_strlen"
                                  /\ UNCHANGED <<thread, inflight, sock, st>>
                             ELSE Raise("ValueError",
                                        "Unexpected packet id " \o ToString(res))
                          /\ UNCHANGED <<frame_len, str_len>>
                     [] OTHER ->
                          /\ str_len' = res
                          /\ pc' = IF Len(raw) < res THEN "payload" ELSE "close"
                          /\ UNCHANGED <<frame_len, pid, thread, inflight, sock, st>>
    /\ UNCHANGED <<pollerVars, connects, peerEnd, stream, raw, sent>>

\* sock.recv(1) returns b"": raise ConnectionError("EOF")
RecvVarintEof ==
    /\ pc \in VarintPcs
    /\ rx = <<>>
    /\ peerEnd = "close"
    /\ nrecv' = nrecv + 1
    /\ Raise("ConnectionError", "EOF")
    /\ UNCHANGED <<pollerVars, connects, peerVars, readVars, sent, elapsed>>

\* recv blocks until the timeout of the socket and raises socket.timeout
RecvTimeout ==
    /\ pc \in VarintPcs \cup {"payload"}
    /\ rx = <<>>
    /\ peerEnd = "hang"
    /\ nrecv' = nrecv + 1
    /\ elapsed' = After(Timeout)
    /\ Raise("timeout", "timed out")
    /\ UNCHANGED <<pollerVars, connects, peerVars, readVars, sent>>

\* --------------------------------------------- mc_status: lines 212 to 218
\* mutant: the loop goes on after an empty chunk
OnEmptyChunkContinue ==
    /\ pc' = "payload"
    /\ UNCHANGED <<thread, inflight, sock, st>>

\* what the loop does when recv returns b"": break
OnEmptyChunk ==
    /\ pc' = "close"
    /\ UNCHANGED <<thread, inflight, sock, st>>

\* mutant: s.recv(4096), whatever is at hand
RecvPayloadGreedy ==
    /\ pc = "payload"
    /\ rx # <<>>
    /\ \E d \in Delays : elapsed' = After(d)
    /\ nrecv' = nrecv + 1
    /\ \E k \in 1..Len(rx) :
          /\ raw' = raw \o SubSeq(rx, 1, k)
          /\ rx' = SubSeq(rx, k + 1, Len(rx))
    /\ pc' = IF Len(raw') < str_len THEN "payload" ELSE "close"
    /\ UNCHANGED <<pollerVars, connects, peerEnd, stream, num_read, result, frame_len, pid,
                   str_len, thread, inflight, sock, sent, st>>

\* mutant: a chunk shorter than asked for ends the loop
RecvPayloadShortEnds ==
    /\ pc = "payload"
    /\ rx # <<>>
    /\ \E d \in Delays : elapsed' = After(d)
    /\ nrecv' = nrecv + 1
    /\ \E k \in 1..(str_len - Len(raw)) :
          /\ k <= Len(rx)
          /\ raw' = raw \o SubSeq(rx, 1, k)
          /\ rx' = SubSeq(rx, k + 1, Len(rx))
    /\ pc' = "close"
    /\ UNCHANGED <<pollerVars, connects, peerEnd, stream, num_read, result, frame_len, pid,
                   str_len, thread, inflight, sock, sent, st>>

\* chunk = s.recv(str_len - len(raw)) returns 1 to str_len - len(raw) bytes
RecvPayload ==
    /\ pc = "payload"
    /\ rx # <<>>
    /\ \E d \in Delays : elapsed' = After(d)
    /\ nrecv' = nrecv + 1
    /\ \E k \in 1..(str_len - Len(raw)) :
          /\ k <= Len(rx)
          /\ raw' = raw \o SubSeq(rx, 1, k)
          /\ rx' = SubSeq(rx, k + 1, Len(rx))
    /\ pc' = IF Len(raw') < str_len THEN "payload" ELSE "close"
    /\ UNCHANGED <<pollerVars, connects, peerEnd, stream, num_read, result, frame_len, pid,
                   str_len, thread, inflight, sock, sent, st>>

\* chunk = s.recv(...) returns b"" because the peer closed
RecvPayloadEof ==
    /\ pc = "payload"
    /\ rx = <<>>
    /\ peerEnd = "close"
    /\ nrecv' = nrecv + 1
    /\ OnEmptyChunk
    /\ UNCHANGED <<pollerVars, connects, peerVars, readVars, sent, elapsed>>

\* s.close()
Close ==
    /\ pc = "close"
    /\ sock' = "closed"
    /\ pc' = "parse"
    /\ UNCHANGED <<pollerVars, connects, peerVars, readVars, thread, inflight, sent,
                   nrecv, elapsed, st>>

\* lines 220 to 237, and the return or the except clause
Parse ==
    /\ pc = "parse"
    /\ LET r == ParseStatus(raw)
       IN  IF r.raised
           THEN Raise(r.cls, r.msg)
           ELSE /\ st' = r.val
                /\ pc' = "publish"
                /\ inflight' = inflight - 1
                /\ thread' = "none"
                /\ UNCHANGED sock
    /\ UNCHANGED <<pollerVars, connects, peerVars, readVars, sent, nrecv, elapsed>>

\* ------------------------------------------ Launcher._update_status, 986 on
Min(a, b) == IF a <= b THEN a ELSE b

\* sample[:12]
Shown(sample) == SubSeq(sample, 1, Min(Len(sample), DisplayCap))

\* ", ".join(names) of names that are all str
RECURSIVE Join(_)
Join(names) ==
    IF names = <<>> THEN ""
    ELSE IF Len(names) = 1 THEN names[1].s
    ELSE names[1].s \o ", " \o Join(Tail(names))

\* str.join raises TypeError on an item that is not a str
JoinRaises(names) == \E i \in 1..Len(names) : names[i].t # "str"

\* the text of the f-strings of lines 990 and 991 after their prefix
Counts(r) == ToString(r.online) \o "/" \o ToString(r.max) \o " players"

\* lines 986 to 1000: the three labels are set from st
PublishResult ==
    /\ IF st.ok
       THEN IF st.sample # <<>> /\ JoinRaises(Shown(st.sample))
            THEN \* lines 990, 991 ran, line 993 raised TypeError: out of
                 \* __init__ it ends the program, out of a slot Qt logs it
                 /\ published' = [published EXCEPT
                        !.title = "Server status: ONLINE  *  " \o Counts(st),
                        !.play = "ONLINE  *  " \o Counts(st)]
                 /\ pubBy' = [pubBy EXCEPT !.title = probeNo, !.play = probeNo]
                 /\ pc' = IF caller = "start" THEN "crashed" ELSE "loop"
            ELSE /\ published' =
                        [title |-> "Server status: ONLINE  *  " \o Counts(st),
                         play |-> "ONLINE  *  " \o Counts(st),
                         players |->
                            IF st.sample # <<>>
                            THEN "Online now: " \o Join(Shown(st.sample))
                            ELSE "Online list: (server didn't provide names)"]
                 /\ pubBy' = [title |-> probeNo, play |-> probeNo,
                              players |-> probeNo]
                 /\ pc' = IF caller = "start" THEN "timer" ELSE "loop"
       ELSE /\ published' = [title |-> "Server status: OFFLINE",
                             play |-> "OFFLINE  *  " \o st.error,
                             players |-> ""]
            /\ pubBy' = [title |-> probeNo, play |-> probeNo, players |-> probeNo]
            /\ pc' = IF caller = "start" THEN "timer" ELSE "loop"

\* mutant: an Offline result doubles the interval of the timer
UpdateStatusBackoff ==
    /\ pc = "publish"
    /\ PublishResult
    /\ interval' = IF st.ok THEN interval ELSE interval + interval
    /\ UNCHANGED <<caller, timerActive, tickPending, probeNo, peerVars, readVars,
                   thread, inflight, sock, sent, nrecv, elapsed, st, connects,
                   ticks, stop, codec>>

\* the body of _update_status after the call of mc_status; it does not
\* touch the timer
UpdateStatus ==
    /\ pc = "publish"
    /\ PublishResult
    /\ UNCHANGED <<caller, timerActive, tickPending, probeNo, peerVars, readVars,
                   thread, inflight, sock, sent, nrecv, elapsed, st, connects,
                   interval, ticks, stop, codec>>

\* ------------------------------------- Launcher._start_status_updates, 977 on
\* mutant: the timer is started and no probe is made before its first timeout
StartTimerOnly ==
    /\ pc = "start"
    /\ interval' = PollInterval
    /\ timerActive' = TRUE
    /\ pc' = "loop"
    /\ UNCHANGED <<caller, tickPending, probeNo, published, pubBy, peerVars,
                   readVars, thread, inflight, sock, sent, nrecv, elapsed, st,
                   connects, ticks, stop, codec>>

\* self._update_status() at line 978, called from __init__
StartStatusUpdates ==
    /\ pc = "start"
    /\ CallMcStatus("start")
    /\ UNCHANGED <<timerActive, tickPending, ticks>>

\* lines 979 to 982: the timer is created and started; __init__ goes on and
\* the program enters the event loop
StartTimer ==
    /\ pc = "timer"
    /\ interval' = PollInterval
    /\ timerActive' = TRUE
    /\ pc' = "loop"
    /\ UNCHANGED <<caller, tickPending, probeNo, published, pubBy, peerVars,
                   readVars, thread, inflight, sock, sent, nrecv, elapsed, st,
                   connects, ticks, stop, codec>>

\* the interval of the running timer elapses; Qt keeps at most one timeout
\* of a timer waiting for the event loop
TimerExpire ==
    /\ timerActive
    /\ ~tickPending
    /\ pc \notin {"crashed", "escaped", "quit"}
    /\ tickPending' = TRUE
    /\ UNCHANGED <<pc, caller, timerActive, probeNo, published, pubBy, peerVars,
                   readVars, thread, inflight, sock, sent, nrecv, elapsed, st,
                   connects, interval, ticks, stop, codec>>

\* mutant: the timeout starts an exchange wherever the GUI thread is
TimerTimeoutAnytime ==
    /\ tickPending
    /\ probeNo < MaxProbes
    /\ tickPending' = FALSE
    /\ ticks' = ticks + 1
    /\ CallMcStatus("tick")
    /\ UNCHANGED timerActive

\* the event loop delivers the timeout: the slot _update_status runs on the
\* GUI thread, which must be back in the event loop for that
TimerTimeout ==
    /\ pc = "loop"
    /\ tickPending
    /\ ~stop.req
    /\ probeNo < MaxProbes
    /\ tickPending' = FALSE
    /\ ticks' = ticks + 1
    /\ CallMcStatus("tick")
    /\ UNCHANGED timerActive

\* main: win.show(); sys.exit(app.exec()).  The code has no operation that
\* stops the timer; polling ends when the user closes the window.  The
\* request can come whenever the window is shown; it waits in the event
\* queue while the GUI thread is inside _update_status.
RequestClose ==
    /\ timerActive
    /\ ~stop.req
    /\ pc \in ExchangePcs \cup {"publish", "loop"}
    /\ stop' = [req |-> TRUE, probes |-> probeNo, busy |-> inflight > 0]
    /\ UNCHANGED <<pc, caller, timerActive, tickPending, probeNo, published,
                   pubBy, peerVars, readVars, thread, inflight, sock, sent,
                   nrecv, elapsed, st, connects, interval, ticks, codec>>

\* the event loop delivers the close (taken to come before a waiting
\* timeout of the timer): the last window closes and app.exec() returns
Quit ==
    /\ pc = "loop"
    /\ stop.req
    /\ pc' = "quit"
    /\ UNCHANGED <<caller, timerActive, tickPending, probeNo, published, pubBy,
                   peerVars, readVars, thread, inflight, sock, sent, nrecv,
                   elapsed, st, connects, interval, ticks, stop, codec>>

Next ==
    \/ StartStatusUpdates
    \/ ConnectFail
    \/ ConnectOk
    \/ SendHandshake
    \/ SendRequest
    \/ SendFail
    \/ RecvVarintByte
    \/ RecvVarintEof
    \/ RecvTimeout
    \/ RecvPayload
    \/ RecvPayloadEof
    \/ Close
    \/ Parse
    \/ UpdateStatus
    \/ StartTimer
    \/ TimerExpire
    \/ TimerTimeout
    \/ RequestClose
    \/ Quit

Spec == Init /\ [][Next]_vars

\* the steps of mc_status on the socket.  Each is a statement of
\* straight-line code or a blocking socket call, and a blocking call returns
\* or times out, so the call goes on as long as one of them can be taken.
SocketStep ==
    \/ ConnectFail
    \/ ConnectOk
    \/ SendHandshake
    \/ SendRequest
    \/ SendFail
    \/ RecvVarintByte
    \/ RecvVarintEof
    \/ RecvTimeout
    \/ RecvPayload
    \/ RecvPayloadEof
    \/ Close
\* the steps of mc_status
McStatusStep == SocketStep \/ Parse

\* WF_vars(Parse): json.loads and the lines after it run to their end.
\* Parse can be taken exactly when pc = "parse" and it changes pc, so
\* ENABLED <<Parse>>_vars is written as that state predicate.
ParseFair == []<>(pc # "parse") \/ []<><<Parse>>_vars

\* one call on its own: _start_status_updates has called _update_status,
\* which is at line 985, about to connect
ExchangeInit ==
    /\ pc = "connect"
    /\ caller = "start"
    /\ thread = UiThread
    /\ timerActive = FALSE
    /\ tickPending = FALSE
    /\ probeNo = 1
    /\ inflight = 1
    /\ sock = "none"
    /\ rx = <<>>
    /\ peerEnd = "close"
    /\ stream = <<>>
    /\ sent = <<>>
    /\ nrecv = 0
    /\ elapsed = 0
    /\ num_read = 0
    /\ result = <<>>
    /\ frame_len = -1
    /\ pid = -1
    /\ str_len = -1
    /\ raw = <<>>
    /\ st = Offline("")
    /\ published = [title |-> "Server status: loading...",
                    play |-> "Server status: loading...",
                    players |-> ""]
    /\ pubBy = [title |-> 0, play |-> 0, players |-> 0]
    /\ connects = 0
    /\ interval = 0
    /\ ticks = 0
    /\ stop = NoStop
    /\ codec = CodecIdle

ExchangeSpec ==
    ExchangeInit /\ [][McStatusStep]_vars /\ WF_vars(SocketStep) /\ ParseFair

\* ------------------------------------------------ the parser on its own
\* the JSON texts given to the parser: an object of up to two members of
\* the table, a number, a text that does not parse
ParserTexts ==
    LET toks == { Tok.member + i : i \in 1..Len(Members) }
    IN  { <<Tok.lbrace, Tok.rbrace>>, <<Tok.seven>>, <<Tok.lbrace, Tok.bang>> }
        \cup { <<Tok.lbrace, m, Tok.rbrace>> : m \in toks }
        \cup { <<Tok.lbrace, m, n, Tok.rbrace>> : m \in toks, n \in toks }

\* the first exchange after its s.close(): the peer delivered a whole frame
\* with one of the texts
ParserInit ==
    /\ pc = "parse"
    /\ caller = "start"
    /\ thread = UiThread
    /\ timerActive = FALSE
    /\ tickPending = FALSE
    /\ probeNo = 1
    /\ inflight = 1
    /\ sock = "closed"
    /\ rx = <<>>
    /\ peerEnd = "close"
    /\ sent = <<HandshakePacket, StatusRequest>>
    /\ raw \in ParserTexts
    /\ nrecv = 3 + Len(raw)
    /\ elapsed = 0
    /\ num_read = 0
    /\ result = <<>>
    /\ frame_len = Len(raw) + 2
    /\ pid = 0
    /\ str_len = Len(raw)
    /\ st = Offline("")
    /\ published = [title |-> "Server status: loading...",
                    play |-> "Server status: loading...",
                    players |-> ""]
    /\ pubBy = [title |-> 0, play |-> 0, players |-> 0]
    /\ connects = 1
    /\ stream = Frame(0, Len(raw), raw)
    /\ interval = 0
    /\ ticks = 0
    /\ stop = NoStop
    /\ codec = CodecIdle

ParserNext == Parse \/ UpdateStatus

ParserSpec == ParserInit /\ [][ParserNext]_vars

\* ------------------------------------------------- the codec on its own
\* the values encoded: around the limb and byte boundaries, the values the
\* specification names (0, 1, 127, 128, 300, 16384, 2^31 - 1, 2^32 - 1),
\* and 2^32 and above, which the mask of _pack_varint folds
CodecHi == {0, 1, 127, 128, 32767, 32768, 65535, 65536}
CodecLo == {0, 1, 127, 128, 300, 16384, 65535}
\* what follows the encoding on the stream: nothing, or the next VarInt
CodecTails == {<<>>, PackVarint(1)}

\* the bytes of the streams given to the reader as they are: no, four or
\* five significant bits in a group, and none or all seven with the high
\* bit set
CodecBytes == {0, 15, 16, 128, 255}
\* those streams: up to one byte more than the reader accepts, after which
\* the peer has closed
RECURSIVE StreamsOfLen(_)
StreamsOfLen(n) ==
    IF n = 0 THEN {<<>>}
    ELSE { <<b>> \o t : b \in CodecBytes, t \in StreamsOfLen(n - 1) }
CodecStreams == UNION { StreamsOfLen(n) : n \in 0..(VarintMax + 1) }

\* value < 2^32
InRange(w) == w[1] < Limb

\* the reader is given the bytes of _pack_varint(v) and what follows them,
\* or a stream as it is
CodecInit ==
    /\ \/ /\ pc = "codec_pack"
          /\ codec \in [v : CodecHi \X CodecLo, tail : CodecTails,
                        packed : {TRUE}, enc : {<<>>}, stream : {<<>>},
                        out : {<<0, 0>>}, used : {0}]
          /\ rx = <<>>
       \/ /\ pc = "codec_read"
          /\ codec \in [v : {<<0, 0>>}, tail : {<<>>},
                        packed : {FALSE}, enc : {<<>>}, stream : CodecStreams,
                        out : {<<0, 0>>}, used : {0}]
          /\ rx = codec.stream
    /\ caller = "none"
    /\ thread = "none"
    /\ timerActive = FALSE
    /\ tickPending = FALSE
    /\ probeNo = 0
    /\ inflight = 0
    /\ sock = "none"
    /\ peerEnd = "close"
    /\ sent = <<>>
    /\ nrecv = 0
    /\ elapsed = 0
    /\ num_read = 0
    /\ result = <<>>
    /\ frame_len = 0
    /\ pid = 0
    /\ str_len = 0
    /\ raw = <<>>
    /\ st = Offline("")
    /\ published = [title |-> "Server status: loading...", play |-> "", players |-> ""]
    /\ pubBy = [title |-> 0, play |-> 0, players |-> 0]
    /\ connects = 0
    /\ stream = <<>>
    /\ interval = 0
    /\ ticks = 0
    /\ stop = NoStop

\* _pack_varint(value): its bytes are what the reader will receive
CodecPack ==
    /\ pc = "codec_pack"
    /\ LET out == PackVarintWide(codec.v)
       IN  /\ codec' = [codec EXCEPT !.enc = out, !.stream = out \o codec.tail]
           /\ rx' = out \o codec.tail
    /\ pc' = "codec_read"
    /\ UNCHANGED <<caller, timerActive, tickPending, probeNo, published, pubBy,
                   interval, ticks, stop, connects, peerEnd, stream, readVars, thread,
                   inflight, sock, sent, nrecv, elapsed, st>>

\* one turn of the loop of _read_varint(sock)
CodecRecv ==
    /\ pc = "codec_read"
    /\ nrecv' = nrecv + 1
    /\ IF rx = <<>>
       THEN /\ pc' = "codec_eof"
            /\ UNCHANGED <<rx, num_read, result, codec>>
       ELSE LET turn == VarintTurn(Head(rx), result, num_read)
            IN  /\ rx' = Tail(rx)
                /\ num_read' = turn.n
                /\ result' = turn.groups
                /\ pc' = CASE turn.end = "toobig" -> "codec_toobig"
                            [] turn.end = "more" -> "codec_read"
                            [] OTHER -> "codec_done"
                /\ codec' = IF turn.end = "done"
                            THEN [codec EXCEPT !.out = WideOf(turn.groups),
                                               !.used = turn.n]
                            ELSE codec
    /\ UNCHANGED <<caller, timerActive, tickPending, probeNo, published, pubBy,
                   interval, ticks, stop, connects, peerEnd, stream, frame_len, pid,
                   str_len, raw, thread, inflight, sock, sent, elapsed, st>>

CodecNext == CodecPack \/ CodecRecv
CodecSpec == CodecInit /\ [][CodecNext]_vars

\* ---------------------------------------------------------------- claims
\* mc_status has returned to _update_status, or the GUI thread is past it
Returned == pc \in {"publish", "timer", "loop", "crashed", "quit"} /\ probeNo > 0

\* C1: whatever the peer does, no error leaves mc_status: the call ends with
\* a result, and a call that failed ends with Offline carrying a reason
C1_NoErrorEscapes ==
    /\ pc # "escaped"
    /\ Returned =>
          /\ st.ok \/ (st = Offline(st.error) /\ st.error # "")
          /\ (sock = "none" \/ num_read > 5 \/ pid > 0) => ~st.ok
\* C1: the JSON text arrived whole and is a number, not an object
C1_Witness ==
    /\ pc = "publish"
    /\ Len(raw) = str_len
    /\ st = Offline("object has no attribute 'get'")

\* C2: when mc_status has returned, the socket it opened is closed
C2_SocketClosedOnReturn == pc \notin ExchangePcs => sock # "open"

\* C3: a response whose JSON text is shorter than the advertised string
\* length never gives Online
C3_TruncatedNeverOnline ==
    (Returned /\ str_len >= 0 /\ Len(raw) < str_len) => ~st.ok

\* C4: mc_status returns within the timeout of the time it was called
C4_OverallDeadline == Returned => elapsed <= Timeout

\* C5: a failed connection attempt gives Offline with a reason within the
\* timeout, and nothing is sent or received
C5_ConnectFailure ==
    (Returned /\ sock = "none") =>
        /\ ~st.ok
        /\ st.error # ""
        /\ elapsed <= Timeout
        /\ sent = <<>>
        /\ nrecv = 0
\* C5: the attempt timed out
C5_Witness ==
    /\ pc = "publish"
    /\ sock = "none"
    /\ elapsed = Timeout
    /\ st = Offline("timed out")

\* C6: the thread that runs an exchange in flight is not the GUI thread
C6_ExchangeOffUiThread == inflight > 0 => thread # UiThread

\* C7: at most one exchange is in flight, also while a timeout of the timer
\* is waiting
C7_AtMostOneInFlight ==
    /\ inflight <= 1
    /\ inflight = 1 <=> pc \in ExchangePcs
\* C7: an exchange has outlasted the poll interval and a timeout is waiting
C7_Witness ==
    /\ inflight = 1
    /\ tickPending
    /\ elapsed >= PollInterval

\* C8: in the event loop, each of the three published texts was written
\* from the result of the latest exchange
C8_PublishedByLatest ==
    pc = "loop" =>
        /\ pubBy.title = probeNo
        /\ pubBy.play = probeNo
        /\ pubBy.players = probeNo

\* C9: a response with a packet id other than 0 gives Offline with the
\* reason of that error, and nothing after the packet id is read
C9_UnexpectedPacketId ==
    pid > 0 =>
        /\ pc \notin ExchangePcs
        /\ st = Offline("Unexpected packet id " \o ToString(pid))
        /\ str_len = -1
        /\ raw = <<>>
\* C9: packet id 1, with the rest of the frame left unread
C9_Witness ==
    /\ pc = "publish"
    /\ pid = 1
    /\ rx # <<>>

\* C10: a JSON text that does not parse gives Offline with a reason
C10_MalformedPayload ==
    (Returned /\ str_len >= 0 /\ JsonLoads(raw).err) =>
        /\ ~st.ok
        /\ st.error # ""
\* C10: the whole advertised text arrived and does not parse
C10_Witness ==
    /\ pc = "publish"
    /\ str_len > 0
    /\ Len(raw) = str_len
    /\ JsonLoads(raw).err
    /\ st = Offline("Expecting value")

\* the JSON value of the text received, and what the claims read in it
DocIsObject == ~JsonLoads(raw).err /\ JsonLoads(raw).val.t = "obj"
Doc == JsonLoads(raw).val
DocPlayers == Get(Doc, "players", JObj(<<>>))
DocDesc == Get(Doc, "description", JNull)
\* the count a players object gives: its integer, 0 when absent or no integer
DocCount(field) ==
    IF HasKey(DocPlayers, field) /\ Get(DocPlayers, field, JNull).t = "num"
    THEN Get(DocPlayers, field, JNull).n
    ELSE 0
\* a field that is absent or an integer
CountIsPlain(field) ==
    HasKey(DocPlayers, field) => Get(DocPlayers, field, JNull).t = "num"
\* an entry of the sample with a name that is a non-empty string
NamedEntry(item) ==
    /\ HasKey(item, "name")
    /\ Get(item, "name", JNull).t = "str"
    /\ Get(item, "name", JNull).s # ""
\* the names of the named entries, in the order of the sample
DocNames ==
    LET named == SelectSeq(Get(DocPlayers, "sample", JNull).a, NamedEntry)
    IN  [i \in 1..Len(named) |-> Get(named[i], "name", JNull)]
\* the sample is an array of objects whose names, where present, are strings
SampleIsPlain ==
    LET v == Get(DocPlayers, "sample", JNull)
    IN  /\ HasKey(DocPlayers, "sample")
        /\ v.t = "arr"
        /\ \A i \in 1..Len(v.a) :
              /\ v.a[i].t = "obj"
              /\ HasKey(v.a[i], "name") => Get(v.a[i], "name", JNull).t = "str"

\* the text of end-to-end scenario A
ScenarioA == <<Tok.lbrace, Tok.member + 1, Tok.member + 2, Tok.rbrace>>

\* C11: a well-formed frame with the text of scenario A gives Online with
\* exactly the values of the text
C11_WellFormedOnline ==
    (Returned /\ pid = 0 /\ str_len = Len(raw) /\ raw = ScenarioA) =>
        st = Online(5, 20, JStr("Welcome"), <<JStr("Alice"), JStr("Bob")>>)
\* C11: the frame of scenario A was read in more than one chunk
C11_Witness ==
    /\ pc = "publish"
    /\ raw = ScenarioA
    /\ nrecv > 4
    /\ st.ok
    /\ st.online = 5

\* C12: a count that is absent or not an integer is 0, and the result is
\* still Online
C12_CountsDefaultZero ==
    (Returned /\ DocIsObject /\ DocPlayers.t = "obj"
        /\ ~HasKey(DocPlayers, "sample")) =>
        /\ st.ok
        /\ st.online = DocCount("online")
        /\ st.max = DocCount("max")

\* C13: a description that is neither a string nor an object gives the
\* empty motd
C13_OtherShapeEmptyMotd ==
    (Returned /\ st.ok /\ DocIsObject /\ HasKey(Doc, "description")
        /\ DocDesc.t \notin {"str", "obj"}) =>
        st.motd = JStr("")

\* C14: a string description is the motd verbatim, a component gives its
\* text, a component without text and an absent description give ""
C14_DescriptionShapes ==
    (Returned /\ st.ok /\ DocIsObject) =>
        /\ ~HasKey(Doc, "description") => st.motd = JStr("")
        /\ (HasKey(Doc, "description") /\ DocDesc.t = "str") => st.motd = DocDesc
        /\ (HasKey(Doc, "description") /\ DocDesc.t = "obj"
                /\ ~HasKey(DocDesc, "text")) => st.motd = JStr("")
        /\ (HasKey(Doc, "description") /\ DocDesc.t = "obj"
                /\ HasKey(DocDesc, "text")
                /\ Get(DocDesc, "text", JNull).t = "str") =>
              st.motd = Get(DocDesc, "text", JNull)
\* C14: the component {"text": "Hello"} gave the motd "Hello"
C14_Witness ==
    /\ pc = "publish"
    /\ st.ok
    /\ DocIsObject
    /\ DocDesc.t = "obj"
    /\ st.motd = JStr("Hello")

\* C15: the sample of the result is the names of the named entries, in
\* order and all of them; the other entries are skipped and the result is
\* Online
C15_SampleExtraction ==
    (Returned /\ DocIsObject /\ DocPlayers.t = "obj" /\ SampleIsPlain
        /\ CountIsPlain("online") /\ CountIsPlain("max")) =>
        /\ st.ok
        /\ st.sample = DocNames
\* C15: more names than are displayed, after an entry with an empty name
C15_Witness ==
    /\ pc = "publish"
    /\ st.ok
    /\ DocIsObject
    /\ Len(Get(DocPlayers, "sample", JNull).a) = DisplayCap + 2
    /\ Len(st.sample) = DisplayCap + 1

\* C16: the counts of an Online result are not negative
C16_CountsNonNegative == (Returned /\ st.ok) => (st.online >= 0 /\ st.max >= 0)

\* C17: a result is Online with a string motd and string names, or Offline
\* with its reason
C17_WellTyped ==
    Returned =>
        IF st.ok
        THEN /\ st.motd.t = "str"
             /\ \A i \in 1..Len(st.sample) : st.sample[i].t = "str"
        ELSE st = Offline(st.error)

\* C18: a call of mc_status makes one connection attempt, whatever its
\* outcome; there is one call per timeout of the timer after the first; and
\* the interval of the running timer is the configured one after any
\* outcomes
C18_OneAttemptFixedInterval ==
    /\ connects <= 1
    /\ (probeNo > 0 /\ pc # "connect") => connects = 1
    /\ probeNo > 0 => probeNo = ticks + 1
    /\ timerActive => interval = PollInterval
\* C18: two timeouts were served, the last probe failed, and the timer
\* still runs at its interval
C18_Witness ==
    /\ pc = "loop"
    /\ ticks = 2
    /\ ~st.ok
    /\ connects = 1
    /\ timerActive
    /\ interval = PollInterval

\* C19: after the window was closed no further call is started, and the
\* result of a call that was running at that moment is not published
C19_StopDiscardsInFlight ==
    stop.req =>
        /\ probeNo = stop.probes
        /\ stop.busy => pubBy.title # stop.probes

\* C20: for a value below 2^32, reading the bytes of _pack_varint(value)
\* neither raises nor runs out of bytes; it returns the value, has read
\* exactly the bytes of the encoding and left what follows them, and the
\* encoding has at most 5 bytes
C20_VarIntRoundTrip ==
    (codec.packed /\ InRange(codec.v) /\ pc \notin {"codec_pack", "codec_read"}) =>
        /\ pc = "codec_done"
        /\ codec.out = codec.v
        /\ codec.used = Len(codec.enc)
        /\ nrecv = codec.used
        /\ rx = codec.tail
        /\ codec.used <= 5
\* C20: 2^32 - 1 was encoded in 5 bytes and read back, the next VarInt
\* left on the stream
C20_Witness ==
    /\ pc = "codec_done"
    /\ codec.packed
    /\ codec.v = <<Limb - 1, Limb - 1>>
    /\ codec.out = codec.v
    /\ codec.used = 5
    /\ rx = PackVarint(1)

\* the reader has raised or returned
CodecEnded == pc \in {"codec_done", "codec_eof", "codec_toobig"}
\* the first k bytes of the stream are there and have the high bit set
LeadingHigh(k) ==
    /\ Len(codec.stream) >= k
    /\ \A i \in 1..k : codec.stream[i] >= 128

\* C21: no value is returned from more than 5 bytes; when the first 5 bytes
\* have the high bit set and a 6th byte comes, whatever it is, the reader
\* raises "VarInt too big"; when the stream ends with no byte with a clear
\* high bit among its at most 5 bytes, the reader raises "EOF"
C21_TooLongOrEof ==
    CodecEnded =>
        /\ pc = "codec_done" => codec.used <= VarintMax
        /\ (LeadingHigh(VarintMax) /\ Len(codec.stream) > VarintMax) =>
              pc = "codec_toobig"
        /\ (LeadingHigh(Len(codec.stream)) /\ Len(codec.stream) <= VarintMax) =>
              pc = "codec_eof"
\* C21: five bytes with the high bit set were followed by a byte without
\* it, and the reader raised on that byte
C21_Witness ==
    /\ pc = "codec_toobig"
    /\ ~codec.packed
    /\ LeadingHigh(VarintMax)
    /\ codec.stream[VarintMax + 1] < 128
    /\ nrecv = VarintMax + 1

\* C22: a value the reader returns is below 2^32
C22_DecodedInRange == pc = "codec_done" => InRange(codec.out)

\* the bytes received so far on this connection
Consumed == Len(stream) - Len(rx)
\* the bytes a VarInt that gave the value n took on the streams of the peer
VarintLen(n) == Len(PackVarint(n))
\* the call has read a whole response and returned Online
ReadOnline == pc = "publish" /\ st.ok

\* C23: when a response is accepted, the bytes read after the length L are
\* exactly L of them, and L is the packet id, the string length and as
\* many payload bytes as the string length says
C23_HonoursFrameLength ==
    ReadOnline =>
        /\ Consumed - VarintLen(frame_len) = frame_len
        /\ frame_len = VarintLen(pid) + VarintLen(str_len) + str_len

\* the writes so far are the first writes of: handshake, then request
SentInOrder ==
    /\ Len(sent) <= 2
    /\ Len(sent) >= 1 => sent[1] = HandshakePacket
    /\ Len(sent) >= 2 => sent[2] = StatusRequest

\* a step from the end of the payload loop on receives and writes nothing
QuietAfterPayload ==
    (pc = "close" \/ pc = "parse") =>
        (nrecv' = nrecv /\ sent' = sent /\ rx' = rx)

\* C24: the handshake is written first and the request second, each in one
\* write, and nothing is received before both are written; the socket is
\* closed before the payload is parsed, and from the end of the payload
\* loop on nothing is received or written
C24_FixedOrder ==
    /\ [](/\ SentInOrder
          /\ nrecv > 0 => Len(sent) = 2
          /\ pc \in {"payload", "close", "parse"} => Len(sent) = 2
          /\ pc = "parse" => sock = "closed")
    /\ [][QuietAfterPayload]_vars
\* C24: the whole payload of scenario A has been read and the socket is
\* closed; the payload is about to be parsed
C24_Witness ==
    /\ pc = "parse"
    /\ sock = "closed"
    /\ sent = <<HandshakePacket, StatusRequest>>
    /\ str_len = 4
    /\ Len(raw) = str_len

\* the handshake of the claim worked out by hand for protocol version 762,
\* host "82.141.114.148" and port 28585: F is 00, FA 05 (762), 0E (14),
\* the 14 bytes of the host, 6F A9 (28585), 01; its 21 bytes follow the
\* length 15
WireHandshake ==
    <<21, 0, 250, 5, 14>> \o HostBytes \o <<111, 169, 1>>
\* the status request: length 1, packet id 0
WireRequest == <<1, 0>>

\* C25: the first write is the handshake of the claim, byte for byte, its
\* length prefix counting the packet id and the body; the second write is
\* the two bytes 01 00
C25_WireBytes ==
    /\ Len(sent) >= 1 =>
          /\ sent[1] = WireHandshake
          /\ sent[1][1] = Len(sent[1]) - 1
    /\ Len(sent) >= 2 => sent[2] = WireRequest
\* C25: both packets have been written and nothing has been received yet
C25_Witness ==
    /\ pc = "read_len"
    /\ Len(sent) = 2
    /\ nrecv = 0
    /\ sock = "open"

\* _read_varint on the bytes of s from position i on, every byte at hand:
\* how the loop ends ("done", "toobig", or "eof" when s runs out), the
\* groups read and the position after them
RECURSIVE VarintAt(_, _, _, _)
VarintAt(s, i, res, nr) ==
    IF i > Len(s)
    THEN [end |-> "eof", groups |-> res, next |-> i]
    ELSE LET turn == VarintTurn(s[i], res, nr)
         IN  IF turn.end = "more"
             THEN VarintAt(s, i + 1, turn.groups, turn.n)
             ELSE [end |-> turn.end, groups |-> turn.groups, next |-> i + 1]

\* the result of a recv that finds no byte: the peer has closed, or the
\* timeout passes
Starved(end) == IF end = "close" THEN Offline("EOF") ELSE Offline("timed out")
\* the result of a VarInt that was not read
VarintFailed(v, end) ==
    IF v.end = "toobig" THEN Offline("VarInt too big") ELSE Starved(end)

\* lines 207 to 239 on the stream s when every recv returns all it asked
\* for, as far as s has it; end is what the peer does after s
WholeRead(s, end) ==
    LET len == VarintAt(s, 1, <<>>, 0)
        id == VarintAt(s, len.next, <<>>, 0)
        n == VarintAt(s, id.next, <<>>, 0)
        want == ValueOf(n.groups)
        text == SubSeq(s, n.next, Min(Len(s), n.next + want - 1))
        r == ParseStatus(text)
    IN  IF len.end # "done" THEN VarintFailed(len, end)
        ELSE IF id.end # "done" THEN VarintFailed(id, end)
        ELSE IF ~PacketIdOk(ValueOf(id.groups))
        THEN Offline("Unexpected packet id " \o ToString(ValueOf(id.groups)))
        ELSE IF n.end # "done" THEN VarintFailed(n, end)
        ELSE IF Len(text) < want /\ end = "hang" THEN Offline("timed out")
        ELSE IF r.raised THEN Offline(r.msg) ELSE r.val

\* C26: however the bytes of the response were split into chunks, the
\* result of the call is the result of reading them in one piece
C26_PartialReadInvariance ==
    (pc = "publish" /\ nrecv > 0) => st = WholeRead(stream, peerEnd)
\* C26: the payload of scenario A came one byte at a time and the result
\* is Online
C26_Witness ==
    /\ pc = "publish"
    /\ st.ok
    /\ str_len = 4
    /\ Len(raw) = str_len
    /\ nrecv = 3 + str_len

\* the 7 payload bits of each byte of s
RECURSIVE Groups(_)
Groups(s) == IF s = <<>> THEN <<>> ELSE <<Head(s) % 128>> \o Groups(Tail(s))

\* C27: the bytes of _pack_varint(v) are 1 to 5; all but the last have the
\* high bit set and the last has it clear; their 7-bit groups, low-order
\* first, make up the 32 bits of v; a last group of zero stands only for
\* the value 0, which is the single byte 0
C27_EncodeShape ==
    (codec.packed /\ pc # "codec_pack") =>
        LET out == codec.enc
            n == Len(out)
        IN  /\ 1 <= n /\ n <= VarintMax
            /\ \A i \in 1..(n - 1) : out[i] >= 128 /\ out[i] < 256
            /\ out[n] >= 0 /\ out[n] < 128
            /\ WideOf(Groups(out)) = Mask32(codec.v)
            /\ n > 1 => out[n] # 0
            /\ Mask32(codec.v) = <<0, 0>> => out = <<0>>
\* C27: 16384 = 2^14 was encoded as 80 80 01
C27_Witness ==
    /\ pc = "codec_read"
    /\ codec.packed
    /\ codec.v = <<0, 16384>>
    /\ codec.enc = <<128, 128, 1>>
    /\ nrecv = 0

\* the first k names of a sample, in their order, separated by ", "
RECURSIVE Listed(_, _)
Listed(names, k) ==
    IF k = 0 THEN ""
    ELSE IF k = 1 THEN names[1].s
    ELSE Listed(names, k - 1) \o ", " \o names[k].s
\* _update_status has run on the result of the call
Displayed == pc \in {"timer", "loop", "crashed"} /\ probeNo > 0

\* C28: once an Online result with n names has been displayed, the player
\* list shows the first min(n, 12) of them in their order, and the
\* placeholder when and only when n = 0
C28_DisplayCap ==
    (Displayed /\ st.ok) =>
        LET n == Len(st.sample)
        IN  published.players =
                IF n = 0 THEN "Online list: (server didn't provide names)"
                ELSE "Online now: " \o Listed(st.sample, Min(n, DisplayCap))

\* a turn of the payload loop (one recv) that stays in the loop has
\* collected more
PayloadGrows ==
    (pc = "payload" /\ pc' = "payload" /\ nrecv' # nrecv) => Len(raw') > Len(raw)

\* C29: a call of mc_status that has begun returns; a VarInt takes at most
\* 6 reads of one byte; the payload loop collects more at every turn it
\* does not leave on, so it takes at most str_len turns
C29_Terminates ==
    /\ (inflight > 0) ~> (inflight = 0)
    /\ [](/\ num_read <= VarintMax + 1
          /\ pc \in {"payload", "close", "parse"} =>
                nrecv <= 3 * (VarintMax + 1) + str_len)
    /\ [][PayloadGrows]_vars
\* C29: the call has returned after a payload that took as many turns as
\* it has bytes
C29_Witness ==
    /\ pc = "publish"
    /\ inflight = 0
    /\ str_len = 3
    /\ Len(raw) = str_len
    /\ nrecv = 3 + str_len

\* C30: what has been received is the front of the stream and the rest is
\* untouched; while a VarInt is being read every byte taken for it so far
\* has the high bit set, and the byte before a new field has it clear;
\* raw is the bytes right after the string length and never more than
\* str_len of them
C30_NeverOverreads ==
    pc \in ExchangePcs \ {"connect"} =>
        /\ rx = SubSeq(stream, Consumed + 1, Len(stream))
        /\ pc \in VarintPcs =>
              /\ num_read <= Consumed
              /\ \A i \in (Consumed - num_read + 1)..Consumed : stream[i] >= 128
              /\ (Consumed > num_read) => stream[Consumed - num_read] < 128
        /\ pc \in {"payload", "close", "parse"} =>
              /\ Len(raw) <= str_len
              /\ raw = SubSeq(stream, Consumed - Len(raw) + 1, Consumed)
              /\ stream[Consumed - Len(raw)] < 128
\* C30: the payload is complete and the byte that follows the frame has
\* not been received
C30_Witness ==
    /\ pc = "parse"
    /\ str_len = 2
    /\ Len(raw) = str_len
    /\ rx = <<Tok.bang>>

\* C31: the first call of mc_status comes from _start_status_updates, not
\* from the timer; when the timer is started that call has returned and
\* its result has replaced the "loading" texts; no timeout of the timer
\* exists, waits or is served before that
C31_ImmediateFirstProbe ==
    /\ probeNo = 1 => (caller = "start" /\ ticks = 0)
    /\ pc = "timer" => (interval = 0 /\ ~timerActive /\ pubBy.title = 1)
    /\ (tickPending \/ ticks > 0) => timerActive
    /\ timerActive =>
          /\ probeNo >= 1
          /\ pubBy.title >= 1 /\ pubBy.play >= 1 /\ pubBy.players >= 1
          /\ published.title # "Server status: loading..."
          /\ published.play # "Server status: loading..."
\* C31: the timer has just been started; the result of the first call is
\* on display and no timeout has come yet
C31_Witness ==
    /\ pc = "loop"
    /\ timerActive
    /\ ~tickPending
    /\ ticks = 0
    /\ probeNo = 1
    /\ st.ok
    /\ pubBy = [title |-> 1, play |-> 1, players |-> 1]

====
